---- MODULE Spec2Model ----
(***************************************************************************)
(* Model of app.py: a Streamlit script that fetches users from a REST API, *)
(* stores them in the SQLite table "usuarios", loads the table into        *)
(* st.session_state.df and renders charts and CSV exports over it.         *)
(*                                                                         *)
(* Streamlit runs the whole script top to bottom once per user action, so  *)
(* every action below is one complete script run (pass) with exactly one   *)
(* widget triggered.  Text values are sequences of one-character strings;  *)
(* a cell or a JSON field is None (<<>>) or Some(v) (<<v>>).               *)
(***************************************************************************)
EXTENDS Integers, Sequences, FiniteSets, TLC

VARIABLES
    tabla,          \* committed contents of table usuarios in the database file
    session_state,  \* st.session_state: whether key 'df' exists, and the frame
    tipo_grafico,   \* the chart selectbox's widget state
    mensaje,        \* the status messages the last pass's handler displayed
    pantalla,       \* what the last pass rendered below the sidebar
    cargado         \* history: a load succeeded since start and since last clear

vars == <<tabla, session_state, tipo_grafico, mensaje, pantalla, cargado>>

----------------------------------------------------------------------------
(* Bounds *)

MaxFetch == 2       \* longest JSON array the remote source returns
MaxStrLen == 3      \* longest name / email of the derivation specification

----------------------------------------------------------------------------
(* Values *)

None == <<>>
Some(v) == <<v>>

HTTP_OK == 200

StatusCodes == {200, 404, 500}

\* dict.get(key): the value, or None when the key is missing
Get(u, k) == IF k \in DOMAIN u.campos THEN Some(u.campos[k]) ELSE None

Objeto(c) == [esDict |-> TRUE, campos |-> c]

\* A JSON array element that is not an object (u.get raises AttributeError)
NoObjeto == [esDict |-> FALSE, campos |-> [x \in {} |-> 0]]

\* The user objects the remote source may serve.  A missing key models a
\* field the API omitted (or sent as null).
ObjetosAPI ==
    { Objeto([id |-> 1, name |-> <<"A","l">>, username |-> "u",
              email |-> <<"a","@","B">>, phone |-> "1", website |-> "w"]),
      Objeto([id |-> 1, username |-> "v",
              email |-> <<"c","@","d">>, phone |-> "2"]),
      Objeto([id |-> 2, name |-> <<"B","o","b">>, username |-> "u",
              email |-> <<"x","@","b">>, website |-> "w"]),
      Objeto([name |-> <<"C">>, username |-> "z", phone |-> "3"]) }

SeqHasta(S, n) == UNION { [1..k -> S] : k \in 0..n }

\* The JSON arrays respuesta.json() may return: arrays of user objects, and
\* such arrays followed by an element that is not an object (the insert loop
\* stops at the first such element and visits nothing after it)
Cuerpos ==
    SeqHasta(ObjetosAPI, MaxFetch)
    \cup { Append(us, NoObjeto) : us \in SeqHasta(ObjetosAPI, MaxFetch - 1) }

Max(S) == CHOOSE m \in S : \A x \in S : x <= m

----------------------------------------------------------------------------
(* The SQLite table *)

ColumnasBase == <<"id", "nombre", "usuario", "correo", "telefono", "sitio_web">>

SinFilas == [k \in {} |-> None]

TablaInicial == [existe |-> FALSE, filas |-> SinFilas]

\* DROP TABLE IF EXISTS usuarios (DDL: runs outside any transaction)
DropTable(t) == [existe |-> FALSE, filas |-> SinFilas]

\* CREATE TABLE IF NOT EXISTS usuarios (id INTEGER PRIMARY KEY, ...)
CreateTable(t) == IF t.existe THEN t ELSE [existe |-> TRUE, filas |-> SinFilas]

\* The tuple bound to the INSERT's six placeholders
Valores(u) ==
    [id |-> Get(u, "id"), nombre |-> Get(u, "name"), usuario |-> Get(u, "username"),
     correo |-> Get(u, "email"), telefono |-> Get(u, "phone"),
     sitio_web |-> Get(u, "website")]

\* id INTEGER PRIMARY KEY: a NULL id is replaced by max(rowid) + 1
Rowid(filas, id) ==
    IF id # None THEN id[1]
    ELSE IF DOMAIN filas = {} THEN 1 ELSE Max(DOMAIN filas) + 1

\* INSERT OR IGNORE: an existing row with the same id is kept
InsertOrIgnore(filas, u) ==
    LET v == Valores(u)
        k == Rowid(filas, v.id)
    IN  IF k \in DOMAIN filas THEN filas
        ELSE [i \in DOMAIN filas \cup {k} |->
                 IF i = k THEN [v EXCEPT !.id = Some(k)] ELSE filas[i]]

\* INSERT OR REPLACE INTO usuarios (...) VALUES (?, ?, ?, ?, ?, ?)
InsertOrReplace(filas, u) ==
    LET v == Valores(u)
        k == Rowid(filas, v.id)
    IN  [i \in DOMAIN filas \cup {k} |->
            IF i = k THEN [v EXCEPT !.id = Some(k)] ELSE filas[i]]

\* for u in usuarios: the first n iterations of the loop
RECURSIVE Insertar(_, _, _)
Insertar(filas, usuarios, n) ==
    IF n = 0 THEN filas
    ELSE LET previas == Insertar(filas, usuarios, n - 1)
         IN  InsertOrReplace(previas, usuarios[n])

\* Index of the first element on which u.get raises, Len + 1 when none does
PrimerFallo(usuarios) ==
    LET malos == { i \in 1..Len(usuarios) : ~usuarios[i].esDict }
    IN  IF malos = {} THEN Len(usuarios) + 1
        ELSE CHOOSE i \in malos : \A j \in malos : i <= j

\* The rows inserted so far are written through at once (no transaction)
SinCommit_Autocommit(t, pendientes) == [t EXCEPT !.filas = pendientes]

\* The INSERTs run in the implicit transaction sqlite3 opens before the first
\* of them; when conexion.commit() is not reached the transaction is rolled
\* back as the connection is discarded, and the file keeps the state t that
\* the (autocommitted) DROP and CREATE left.
SinCommit(t, pendientes) == t

\* conexion.commit()
Commit(t, pendientes) == [t EXCEPT !.filas = pendientes]

FallasBD == {"ninguna", "drop", "create", "commit"}

\* Lines 39-65 with the storage failing at stage falla (an sqlite3 error
\* raised there) or on the first array element that is not an object.
GuardarEnSQLite(t, usuarios, falla) ==
    IF falla = "drop"
    THEN [tabla |-> t, etapa |-> falla]
    ELSE LET t1 == DropTable(t) IN
         IF falla = "create"
         THEN [tabla |-> t1, etapa |-> falla]
         ELSE LET t2 == CreateTable(t1)
                  n  == PrimerFallo(usuarios)
              IN  IF n <= Len(usuarios)
                  THEN [tabla |-> SinCommit(t2, Insertar(t2.filas, usuarios, n - 1)),
                        etapa |-> "insert"]
                  ELSE LET p == Insertar(t2.filas, usuarios, Len(usuarios)) IN
                       IF falla = "commit"
                       THEN [tabla |-> SinCommit(t2, p), etapa |-> falla]
                       ELSE [tabla |-> Commit(t2, p), etapa |-> "ninguna"]

----------------------------------------------------------------------------
(* Messages *)

Mensaje(texto, codigo, n, etapa) ==
    [texto |-> texto, codigo |-> codigo, n |-> n, etapa |-> etapa]

SinMensaje == Mensaje("ninguno", 0, 0, "ninguna")

----------------------------------------------------------------------------
(* The session *)

SinDf == [presente |-> FALSE, df |-> [columnas |-> <<>>, filas |-> <<>>]]

ConDf(df) == [presente |-> TRUE, df |-> df]

\* pd.read_sql_query('SELECT * FROM usuarios'): the rows in rowid order
ReadSql(t) ==
    LET ids == DOMAIN t.filas
        nth(i) == CHOOSE k \in ids : Cardinality({ j \in ids : j < k }) = i - 1
    IN  [columnas |-> ColumnasBase,
         filas |-> [i \in 1..Cardinality(ids) |-> t.filas[nth(i)]]]

----------------------------------------------------------------------------
(* 1) Refresh: the handler of the button "Actualizar datos desde la API" *)

\* What requests.get and respuesta.json() can produce
Respuesta(llega, status, valido, usuarios) ==
    [llega |-> llega, status_code |-> status, valido |-> valido, usuarios |-> usuarios]

\* A faulty status test: only the 5xx statuses are taken for failures
EsExito_Menor500(status) == status < 500

\* if respuesta.status_code == 200
EsExito(status) == status = HTTP_OK

\* The try block of the handler: the table and the messages it ends with
Actualizar(t, resp, falla) ==
    IF ~resp.llega
    THEN [tabla |-> t, mensaje |-> Mensaje("excepcion", 0, 0, "get")]
    ELSE IF ~EsExito(resp.status_code)
    THEN [tabla |-> t, mensaje |-> Mensaje("error_api", resp.status_code, 0, "ninguna")]
    ELSE IF ~resp.valido
    THEN [tabla |-> t, mensaje |-> Mensaje("excepcion", 0, 0, "json")]
    ELSE LET g == GuardarEnSQLite(t, resp.usuarios, falla)
             n == Len(resp.usuarios)
         IN  [tabla |-> g.tabla,
              mensaje |-> IF g.etapa = "ninguna"
                          THEN Mensaje("guardado", 0, n, "ninguna")
                          ELSE Mensaje("excepcion", 0, n, g.etapa)]

\* A handler that goes on to load the table it has written into the session
SesionTrasActualizar_Carga(ss, t) ==
    IF t.existe /\ ReadSql(t).filas # <<>> THEN ConDf(ReadSql(t)) ELSE ss

\* The session after the handler, which wrote table t: no statement of lines
\* 30-71 assigns st.session_state
SesionTrasActualizar(ss, t) == ss

----------------------------------------------------------------------------
(* 2) Load: the handler of the button "Cargar desde SQLite" *)

\* A faulty handler that stores whatever it read, even an empty frame
Cargar_SinComprobar(t, ss, falla) ==
    IF falla \/ ~t.existe
    THEN [session_state |-> ss, exito |-> FALSE,
          mensaje |-> Mensaje("error_cargar", 0, 0, IF falla THEN "connect" ELSE "select")]
    ELSE [session_state |-> ConDf(ReadSql(t)), exito |-> TRUE,
          mensaje |-> Mensaje("cargado", 0, Len(ReadSql(t).filas), "ninguna")]

\* The try block of the handler.  falla: sqlite3 raises for a reason of the
\* environment (etapa "connect"); on a file without the table the SELECT
\* raises "no such table: usuarios" (etapa "select").  Both end in the except
\* branch.  exito: line 91 was reached.
Cargar(t, ss, falla) ==
    IF falla
    THEN [session_state |-> ss, exito |-> FALSE,
          mensaje |-> Mensaje("error_cargar", 0, 0, "connect")]
    ELSE IF ~t.existe
    THEN [session_state |-> ss, exito |-> FALSE,
          mensaje |-> Mensaje("error_cargar", 0, 0, "select")]
    ELSE LET df == ReadSql(t) IN
         IF df.filas # <<>>
         THEN [session_state |-> ConDf(df), exito |-> TRUE,
               mensaje |-> Mensaje("cargado", 0, Len(df.filas), "ninguna")]
         ELSE [session_state |-> ss, exito |-> FALSE,
               mensaje |-> Mensaje("sin_datos", 0, 0, "ninguna")]

----------------------------------------------------------------------------
(* 3) Feature derivation (lines 120-122) *)

\* str.lower() on the characters the model uses
LowerChar(c) ==
    CASE c = "A" -> "a"
      [] c = "B" -> "b"
      [] c = "C" -> "c"
      [] OTHER -> c

Lower(s) == [i \in 1..Len(s) |-> LowerChar(s[i])]

\* str.split(sep): the pieces of s between the occurrences of sep
RECURSIVE Split(_, _)
Split(s, sep) ==
    LET pos == { i \in 1..Len(s) : s[i] = sep }
    IN  IF pos = {} THEN <<s>>
        ELSE LET i == CHOOSE k \in pos : \A j \in pos : k <= j
             IN  <<SubSeq(s, 1, i - 1)>> \o Split(SubSeq(s, i + 1, Len(s)), sep)

\* .str[-1]: the last piece
Pieza1_Ultima(piezas) == Some(piezas[Len(piezas)])

\* .str[1]: the second piece, NA when there is none
Pieza1(piezas) == IF Len(piezas) >= 2 THEN Some(piezas[2]) ELSE None

\* df['nombre'].str.len().fillna(0).astype('int64')
LongitudNombre(nombre) == IF nombre = None THEN 0 ELSE Len(nombre[1])

\* df['correo'].str.split('@').str[1].str.lower()
DominioCorreo(correo) ==
    IF correo = None THEN None
    ELSE LET p == Pieza1(Split(correo[1], "@"))
         IN  IF p = None THEN None ELSE Some(Lower(p[1]))

ColumnasDerivadas == <<"longitud_nombre", "dominio_correo">>

Rango(s) == { s[i] : i \in DOMAIN s }

\* df[col] = ...: a new column is appended, an existing one is overwritten
ConColumna(columnas, col) ==
    IF col \in Rango(columnas) THEN columnas ELSE Append(columnas, col)

ConDerivadas(fila) ==
    [c \in DOMAIN fila \cup Rango(ColumnasDerivadas) |->
        IF c = "longitud_nombre" THEN Some(LongitudNombre(fila.nombre))
        ELSE IF c = "dominio_correo" THEN DominioCorreo(fila.correo)
        ELSE fila[c]]

\* The frame after lines 121-122
Derivar(df) ==
    [columnas |-> ConColumna(ConColumna(df.columnas, "longitud_nombre"), "dominio_correo"),
     filas |-> [i \in DOMAIN df.filas |-> ConDerivadas(df.filas[i])]]

\* df = st.session_state.df binds the session's own frame object, so the
\* column assignments of lines 121-122 are made on the frame the session holds
EnSesion(ss, derivado) == ConDf(derivado)

----------------------------------------------------------------------------
(* 4) Charts and 5) exports (lines 98-347) *)

TiposGrafico ==
    {"Histograma", "Barras Horizontales", "Grafico de Dona", "Tabla Interactiva",
     "Estadisticas Avanzadas", "Grafico de Violin", "Grafico de Dispersion"}

\* the selectbox's first option, which a widget without state shows
TipoPorDefecto == "Histograma"

SinCuentas == [d \in {} |-> 0]

\* value_counts() counting the missing values too (dropna=False)
ValueCounts_ConNA(filas, col) ==
    LET valores == { filas[i][col] : i \in DOMAIN filas }
    IN  [v \in valores |-> Cardinality({ i \in DOMAIN filas : filas[i][col] = v })]

\* df[col].value_counts(): occurrences of each value, missing values dropped
ValueCounts(filas, col) ==
    LET valores == { filas[i][col] : i \in DOMAIN filas } \ {None}
    IN  [v \in valores |-> Cardinality({ i \in DOMAIN filas : filas[i][col] = v })]

\* What a pass that st.stop() ends shows: the guidance, and nothing below it
Guia == [detenido |-> TRUE, total |-> 0, columnas |-> 0, derivados |-> <<>>,
         grafico |-> "ninguno", dom_counts |-> SinCuentas, csv |-> <<>>]

\* df[['id', 'nombre', 'longitud_nombre', 'correo', 'dominio_correo']]
Caracteristicas(filas) ==
    [i \in DOMAIN filas |->
        [c \in {"id", "nombre", "longitud_nombre", "correo", "dominio_correo"} |->
            filas[i][c]]]

\* A faulty guard that lets the pass go on without data
HayDatos_Siempre(ss) == TRUE

\* 'df' in st.session_state
HayDatos(ss) == ss.presente

\* The script from line 98 to line 347: the guard, the metrics, the
\* derivation, the selected chart and the exports
Render(ss, tipo) ==
    IF ~HayDatos(ss)
    THEN [session_state |-> ss, tipo_grafico |-> TipoPorDefecto, pantalla |-> Guia]
    ELSE LET df == ss.df
             d  == Derivar(df)
         IN  [session_state |-> EnSesion(ss, d),
              tipo_grafico |-> tipo,
              pantalla |->
                 [detenido |-> FALSE,
                  total |-> Len(df.filas),
                  columnas |-> Len(df.columnas),
                  derivados |-> Caracteristicas(d.filas),
                  grafico |-> tipo,
                  dom_counts |->
                     IF tipo \in {"Barras Horizontales", "Grafico de Dona"}
                     THEN ValueCounts(d.filas, "dominio_correo")
                     ELSE SinCuentas,
                  csv |-> d.columnas]]

----------------------------------------------------------------------------
(* Script runs *)

Init ==
    /\ tabla = TablaInicial
    /\ session_state = SinDf
    /\ tipo_grafico = TipoPorDefecto
    /\ mensaje = SinMensaje
    /\ pantalla = Guia
    /\ cargado = FALSE

Mostrar(r) ==
    /\ session_state' = r.session_state
    /\ tipo_grafico' = r.tipo_grafico
    /\ pantalla' = r.pantalla

\* The arrays tried together with a storage failure of the environment
CuerposConFalla == SeqHasta(ObjetosAPI, 1) \ {<<>>}

\* What the remote source and the storage can do during one refresh: the
\* request fails; a status other than 200; a body that is not JSON; an array,
\* stored without or with a storage failure
EntradasActualizar ==
    { <<Respuesta(FALSE, 0, FALSE, <<>>), "ninguna">>,
      <<Respuesta(TRUE, HTTP_OK, FALSE, <<>>), "ninguna">> }
    \cup { <<Respuesta(TRUE, st, TRUE, <<>>), "ninguna">> : st \in StatusCodes \ {HTTP_OK} }
    \cup { <<Respuesta(TRUE, HTTP_OK, TRUE, us), "ninguna">> : us \in Cuerpos }
    \cup { <<Respuesta(TRUE, HTTP_OK, TRUE, us), f>> :
              us \in CuerposConFalla, f \in FallasBD \ {"ninguna"} }

\* A run with the refresh button pressed: the handler, then the rest of the
\* script on the session the handler left
PasoActualizar ==
    \E a \in { Actualizar(tabla, e[1], e[2]) : e \in EntradasActualizar } :
        /\ tabla' = a.tabla
        /\ mensaje' = a.mensaje
        /\ Mostrar(Render(SesionTrasActualizar(session_state, a.tabla), tipo_grafico))
        /\ UNCHANGED cargado

\* A run with the load button pressed
PasoCargar(falla) ==
    LET c == Cargar(tabla, session_state, falla) IN
    /\ mensaje' = c.mensaje
    /\ Mostrar(Render(c.session_state, tipo_grafico))
    /\ cargado' = (cargado \/ c.exito)
    /\ UNCHANGED tabla

\* A run after another chart kind was selected
PasoSeleccionar(tipo) ==
    /\ ~pantalla.detenido
    /\ tipo # tipo_grafico
    /\ mensaje' = SinMensaje
    /\ Mostrar(Render(session_state, tipo))
    /\ UNCHANGED <<tabla, cargado>>

\* A run after a download button was clicked
PasoExportar ==
    /\ ~pantalla.detenido
    /\ mensaje' = SinMensaje
    /\ Mostrar(Render(session_state, tipo_grafico))
    /\ UNCHANGED <<tabla, cargado>>

\* del st.session_state.df
Limpiar(ss) == SinDf

\* A run with "Limpiar Datos" pressed: the pass renders, deletes the frame
\* and st.rerun() starts the pass that replaces it
PasoLimpiar ==
    /\ ~pantalla.detenido
    /\ LET r == Render(session_state, tipo_grafico)
           s == IF r.session_state.presente THEN Limpiar(r.session_state)
                ELSE r.session_state
       IN  Mostrar(Render(s, r.tipo_grafico))
    /\ mensaje' = SinMensaje
    /\ cargado' = FALSE
    /\ UNCHANGED tabla

Next ==
    \/ PasoActualizar
    \/ \E falla \in BOOLEAN : PasoCargar(falla)
    \/ \E tipo \in TiposGrafico : PasoSeleccionar(tipo)
    \/ PasoExportar
    \/ PasoLimpiar

Spec == Init /\ [][Next]_vars

----------------------------------------------------------------------------
(* The store alone: refreshes and loads, no chart or export action *)

NextAlmacen ==
    \/ PasoActualizar
    \/ \E falla \in BOOLEAN : PasoCargar(falla)

SpecAlmacen == Init /\ [][NextAlmacen]_vars

----------------------------------------------------------------------------
(* The derivation on arbitrary text: the session starts on a database file *)
(* that an earlier session left with one row, whose name and email are any *)
(* text of at most MaxStrLen characters                                    *)

Textos(alfabeto) == SeqHasta(alfabeto, MaxStrLen)

Opcional(S) == {None} \cup { Some(x) : x \in S }

InitDerivar ==
    /\ \E nombre \in Opcional(Textos({"C"})), correo \in Opcional(Textos({"a", "B", "@"})) :
          tabla = [existe |-> TRUE,
                   filas |-> (1 :> [id |-> Some(1), nombre |-> nombre, usuario |-> None,
                                    correo |-> correo, telefono |-> None,
                                    sitio_web |-> None])]
    /\ session_state = SinDf
    /\ tipo_grafico = TipoPorDefecto
    /\ mensaje = SinMensaje
    /\ pantalla = Guia
    /\ cargado = FALSE

NextDerivar ==
    \/ \E falla \in BOOLEAN : PasoCargar(falla)
    \/ \E tipo \in TiposGrafico : PasoSeleccionar(tipo)
    \/ PasoExportar
    \/ PasoLimpiar

SpecDerivar == InitDerivar /\ [][NextDerivar]_vars

----------------------------------------------------------------------------
(* Properties *)

Min(S) == CHOOSE m \in S : \A x \in S : m <= x

\* The pass that led to the next state ran the refresh handler, which raised
\* after the store write had begun
FalloAlGuardar ==
    /\ mensaje'.texto = "excepcion"
    /\ mensaje'.etapa \in {"drop", "create", "insert", "commit"}

\* C1: a refresh that fails after the store write has begun leaves the table
\* with exactly the rows it had before, or with no rows at all; never with
\* part of the fetched records.
C1_FailedRefreshNeverPartial ==
    [][FalloAlGuardar => (tabla'.filas = tabla.filas \/ DOMAIN tabla'.filas = {})]_vars

\* A refresh failed on an element after the first of the fetched array, while
\* the session still shows rows loaded before: the table exists and is empty.
C1_Witness ==
    /\ mensaje.texto = "excepcion"
    /\ mensaje.etapa = "insert"
    /\ mensaje.n >= 2
    /\ session_state.presente
    /\ tabla.existe
    /\ DOMAIN tabla.filas = {}

\* The ids of the fetched array (None for an object without id)
IdsDe(us) == { Get(us[i], "id") : i \in 1..Len(us) }

\* Reading table t yields one row per distinct id of us, each row carrying
\* the fields of the last record of us with that id
UnaFilaPorId(t, us) ==
    LET leidas == ReadSql(t).filas IN
    /\ Len(leidas) = Cardinality(IdsDe(us))
    /\ { leidas[j].id : j \in 1..Len(leidas) } = IdsDe(us)
    /\ \A i \in 1..Len(us) :
          (\A k \in (i + 1)..Len(us) : Get(us[k], "id") # Get(us[i], "id"))
          => \E j \in 1..Len(leidas) : leidas[j] = Valores(us[i])

\* The step is a refresh that fetched the array us and saved it
RefrescoGuardado(us) ==
    /\ mensaje' = Mensaje("guardado", 0, Len(us), "ninguna")
    /\ tabla' = Actualizar(tabla, Respuesta(TRUE, HTTP_OK, TRUE, us), "ninguna").tabla

\* C2 as stated: after a successful refresh of any fetched array of user
\* objects the table reads back as one row per distinct id of the array,
\* last write wins, and nothing else.
C2_Original ==
    [][mensaje'.texto = "guardado"
       => \A us \in [1..mensaje'.n -> ObjetosAPI] :
             RefrescoGuardado(us) => UnaFilaPorId(tabla', us)]_vars

TodosConId(us) == \A i \in 1..Len(us) : Get(us[i], "id") # None

\* C2 amended: after a successful refresh of a fetched array whose objects
\* all carry an integer id, the table reads back as one row per distinct id of the
\* array, each with the fields of the last record with that id, and no row
\* of an earlier refresh.
C2_ReplaceAllLastWriteWins ==
    [][mensaje'.texto = "guardado"
       => \A us \in [1..mensaje'.n -> ObjetosAPI] :
             (TodosConId(us) /\ RefrescoGuardado(us)) => UnaFilaPorId(tabla', us)]_vars

\* Two records were fetched and saved as one row, while the session shows a
\* row of an earlier refresh whose id the table no longer has.
C2_Witness ==
    /\ mensaje = Mensaje("guardado", 0, 2, "ninguna")
    /\ DOMAIN tabla.filas = {1}
    /\ tabla.filas[1].nombre = None
    /\ session_state.presente
    /\ \E i \in 1..Len(session_state.df.filas) :
          session_state.df.filas[i].id = Some(2)

\* C3: a response with a status other than 200 ends the refresh with the
\* bad-status message carrying that status, and the table is left as it was.
C3_BadStatusNoWrite ==
    [][/\ \A st \in StatusCodes \ {HTTP_OK}, us \in CuerposConFalla :
             Actualizar(tabla, Respuesta(TRUE, st, TRUE, us), "ninguna")
                = [tabla |-> tabla, mensaje |-> Mensaje("error_api", st, 0, "ninguna")]
       /\ mensaje'.texto = "error_api"
             => tabla' = tabla /\ mensaje'.codigo \in StatusCodes \ {HTTP_OK}]_vars

\* A refresh answered 404 has left a table with rows in place.
C3_Witness ==
    /\ mensaje = Mensaje("error_api", 404, 0, "ninguna")
    /\ DOMAIN tabla.filas # {}

\* C4: a pass produces charts and exports only when the session holds a
\* loaded record set, and the session holds one only when a load has
\* succeeded since the session started and since the last clear; any other
\* pass shows the guidance alone.
C4_ChartsOnlyWhenLoaded ==
    /\ session_state.presente => cargado
    /\ ~pantalla.detenido => session_state.presente
    /\ ~session_state.presente => pantalla = Guia

\* The guidance is shown after a clear: no message, no frame, rows in the
\* table that had been loaded.
C4_Witness ==
    /\ pantalla = Guia
    /\ ~session_state.presente
    /\ ~cargado
    /\ mensaje = SinMensaje
    /\ DOMAIN tabla.filas # {}

\* The pass that led to the next state ran the load handler, and the
\* storage itself did not fail
CargaHecha ==
    /\ mensaje'.texto \in {"cargado", "sin_datos", "error_cargar"}
    /\ mensaje'.etapa # "connect"

\* C5 as stated: a load from a database file whose table does not exist, or
\* exists with no rows, reads an empty sequence and does not end in an error
\* outcome.
C5_LoadOfEmptyStoreIsNoError ==
    [][(CargaHecha /\ (~tabla.existe \/ DOMAIN tabla.filas = {}))
          => mensaje'.texto = "sin_datos"]_vars

\* C6 as stated: the frame the session holds keeps exactly the six base
\* columns it was loaded with.
C6_SessionKeepsBaseColumns ==
    session_state.presente => session_state.df.columnas = ColumnasBase

\* Positions of '@' in s
Arrobas(s) == { i \in 1..Len(s) : s[i] = "@" }

\* The text of s after its first '@', None without '@'
TrasPrimeraArroba(s) ==
    IF Arrobas(s) = {} THEN None
    ELSE Some(SubSeq(s, Min(Arrobas(s)) + 1, Len(s)))

\* The text of s between its first '@' and its next '@' (or its end)
EntreArrobas(s) ==
    IF Arrobas(s) = {} THEN None
    ELSE LET i == Min(Arrobas(s))
             resto == { j \in Arrobas(s) : j > i }
         IN  Some(SubSeq(s, i + 1, IF resto = {} THEN Len(s) ELSE Min(resto) - 1))

EnMinusculas(t) == IF t = None THEN None ELSE Some(Lower(t[1]))

LongitudEsperada(fila) ==
    fila.longitud_nombre = Some(IF fila.nombre = None THEN 0 ELSE Len(fila.nombre[1]))

RefrescoHecho ==
    \/ mensaje'.texto \in {"guardado", "error_api"}
    \/ mensaje'.texto = "excepcion"

\* C8: a refresh, successful or failed, leaves the session's loaded record
\* set as it was, and the pass shows and exports the records of that set.
C8_RefreshKeepsSession ==
    [][RefrescoHecho =>
          /\ session_state' = session_state
          /\ session_state.presente =>
                /\ pantalla'.total = Len(session_state.df.filas)
                /\ pantalla'.derivados = Caracteristicas(session_state.df.filas)
                /\ pantalla'.csv = session_state.df.columnas]_vars

\* After a refresh that saved, the session shows rows that differ from the
\* table's.
C8_Witness ==
    /\ mensaje.texto = "guardado"
    /\ session_state.presente
    /\ Caracteristicas(session_state.df.filas) # Caracteristicas(Derivar(ReadSql(tabla)).filas)
    /\ DOMAIN tabla.filas # {}

RECURSIVE SumaCuentas(_)
SumaCuentas(f) ==
    IF DOMAIN f = {} THEN 0
    ELSE LET d == CHOOSE x \in DOMAIN f : TRUE
         IN  f[d] + SumaCuentas([x \in DOMAIN f \ {d} |-> f[x]])

EsPorDominio == pantalla.grafico \in {"Barras Horizontales", "Grafico de Dona"}

CuentasExactas ==
    \A d \in DOMAIN pantalla.dom_counts :
        pantalla.dom_counts[d] =
            Cardinality({ i \in 1..Len(pantalla.derivados) :
                             pantalla.derivados[i].dominio_correo = d })

\* C9 as stated: the bars and the donut show one group per distinct
\* email_domain value of the loaded records, each with the number of records
\* of that domain, and the counts sum to the number of loaded records.
C9_Original ==
    EsPorDominio =>
        /\ DOMAIN pantalla.dom_counts =
              { pantalla.derivados[i].dominio_correo : i \in 1..Len(pantalla.derivados) }
        /\ CuentasExactas
        /\ SumaCuentas(pantalla.dom_counts) = pantalla.total

\* C9 amended: the bars and the donut show one group per distinct
\* email_domain value that is not missing, each with the number of records
\* of that domain, and the counts sum to the number of loaded records whose
\* email_domain is not missing.
C9_GroupsOfDefinedDomains ==
    EsPorDominio =>
        /\ DOMAIN pantalla.dom_counts =
              { pantalla.derivados[i].dominio_correo : i \in 1..Len(pantalla.derivados) }
                 \ {None}
        /\ CuentasExactas
        /\ SumaCuentas(pantalla.dom_counts) =
              Cardinality({ i \in 1..Len(pantalla.derivados) :
                               pantalla.derivados[i].dominio_correo # None })

\* The bars or the donut show two records of one domain.
C9_Witness ==
    /\ EsPorDominio
    /\ pantalla.total = 2
    /\ \E d \in DOMAIN pantalla.dom_counts : pantalla.dom_counts[d] = 2

CargaSinFilas ==
    mensaje'.texto \in {"sin_datos", "error_cargar"}

\* C10: a load that reads no row or raises leaves the session's loaded
\* record set as it was, and the loaded record set, when present, holds at
\* least one record, so that no chart is drawn on an empty set.
C10_LoadedSetNeverEmpty ==
    [][/\ CargaSinFilas => session_state' = session_state
       /\ session_state'.presente => Len(session_state'.df.filas) >= 1
       /\ ~pantalla'.detenido => pantalla'.total >= 1]_vars

\* A load found the table empty and the rows loaded before are still shown.
C10_Witness ==
    /\ mensaje.texto = "sin_datos"
    /\ session_state.presente
    /\ ~pantalla.detenido
    /\ pantalla.total >= 1

====
